---- MODULE Spec2Model ----
(***************************************************************************)
(* Freesia: a two-tier cache facade (process-local LocalCache in front of  *)
(* a shared RemoteStore), with an asynchronous dispatcher running backfill *)
(* jobs and eviction jobs, and a subscriber to the invalidation channel.   *)
(* Model of src/freesia.go.                                                *)
(***************************************************************************)
EXTENDS Integers, Sequences, FiniteSets, Bags, TLC

VARIABLES store, cache, queue, subState

vars == <<store, cache, queue, subState>>

(***************************************************************************)
(* Bounds of the model.                                                    *)
(***************************************************************************)
\* Most jobs the dispatcher holds pending at once.
MaxJobs == 2
\* Most entries handed to one MSet or MGet call.
MaxBatch == 2
\* Chunk size of MGet; the program uses 3000 (src/freesia.go:184), scaled down.
ChunkSize == 1
\* The remote TTL (entry.Expiration) callers use.
Expiration == 4

Keys == {"a", "b"}

\* Values callers put in entries: two strings, a number, and a value the
\* codec cannot encode (a channel).
Values == {"s0", "s1", "n1", "chan"}

TypeOf(v) ==
  CASE v \in {"s0", "s1"} -> "str"
    [] v = "n1" -> "num"
    [] OTHER -> "chan"

\* entry.Entry: Key, Value, Expiration and the local-cache eligibility flag.
Entries == [Key : Keys, Value : Values, Expiration : {Expiration}, local : BOOLEAN]

\* The entries callers pass: Set callers write the string "s1", MSet callers
\* the number "n1", either may pass a value that does not encode, and Get
\* and MGet callers pre-populate the zero string "s0".
WriteEntries == {e \in Entries : e.Value \in {"s1", "chan"}}

BatchWriteEntries ==
  {e \in Entries : e.Value = "n1" \/ (e.Value = "chan" /\ e.Key = "a" /\ e.local)}

ReadEntries == {e \in Entries : e.Value = "s0"}

\* entry.EnableLocalCache()
EnableLocalCache(e) == e.local

\* entry.Encode(): fails on a value the codec does not support.
EncodeFails(e) == TypeOf(e.Value) = "chan"

\* entry.Data(): the encoded payload, a tagged byte string.
Data(e) == [typ |-> TypeOf(e.Value), body |-> e.Value]

\* The payload LocalCache returns when the stored value is not a []byte.
IsBytes(d) == d.typ # "iface"

\* entry.Decode(b): fails when the payload is not of the type of e.Value.
DecodeFails(e, d) == d.typ # TypeOf(e.Value)

\* The value e carries after a Decode(d) (unchanged when Decode fails).
Decoded(e, d) == IF DecodeFails(e, d) THEN e.Value ELSE d.body

(***************************************************************************)
(* Partial maps: a tier is a function from the keys it holds.              *)
(***************************************************************************)
Has(m, k) == k \in DOMAIN m

Put(m, k, v) == [x \in (DOMAIN m) \cup {k} |-> IF x = k THEN v ELSE m[x]]

Remove(m, k) == [x \in (DOMAIN m) \ {k} |-> m[x]]

RemoveAll(m, ks) == [x \in (DOMAIN m) \ ks |-> m[x]]

Empty == [x \in {} |-> 0]

Range(s) == {s[i] : i \in DOMAIN s}

Min(S) == CHOOSE x \in S : \A y \in S : x <= y

\* Sequences over S of length lo..hi.
SeqsOf(S, lo, hi) == UNION {[1..n -> S] : n \in lo..hi}

(***************************************************************************)
(* Jobs handed to the dispatcher.                                          *)
(***************************************************************************)
NoEntry == [Key |-> "a", Value |-> "s0", Expiration |-> Expiration, local |-> FALSE]

NoPayload == [valid |-> FALSE, keys |-> <<>>]

\* A backfill job: j.Arg = e, j.Fn = f.Set.
BackfillJob(e) == [kind |-> "backfill", e |-> e, payload |-> NoPayload]

\* An eviction job: job.Arg = message.
EvictJob(p) == [kind |-> "evict", e |-> NoEntry, payload |-> p]

\* msgpack encoding of a key list, as the publisher sends it.
Pack(keys) == [valid |-> TRUE, keys |-> keys]

\* Payloads a publisher may send: key lists, and one that does not unmarshal.
Payloads == {Pack(<<"a", "b">>), NoPayload}

\* The bag of the jobs in a sequence.
RECURSIVE BagOf(_)
BagOf(js) == IF js = <<>> THEN EmptyBag ELSE SetToBag({Head(js)}) (+) BagOf(Tail(js))

(***************************************************************************)
(* Faults of the collaborators, chosen by the environment for each call:   *)
(* store: the RemoteStore call (Set, Get, Del) fails; cache: the positions *)
(* (entry or key index within the call) whose LocalCache call fails.       *)
(***************************************************************************)
Faults ==
  {f \in [store : BOOLEAN, cache : SUBSET (1..MaxBatch)] : f.store => f.cache = {}}

NoFault == [store |-> FALSE, cache |-> {}]

\* The faults that can strike Set(e): a fault is offered for a call the
\* handler can reach.
SetFaults(e) ==
  {f \in Faults : /\ f.cache \subseteq (IF EnableLocalCache(e) THEN {1} ELSE {})
                  /\ EncodeFails(e) => f = NoFault}

\* The faults that can strike MSet(es), which stops at its first failing
\* LocalCache call.
MSetFaults(es) ==
  {f \in Faults : /\ f.cache \subseteq {i \in DOMAIN es : EnableLocalCache(es[i])}
                  /\ Cardinality(f.cache) <= 1
                  /\ (\E i \in DOMAIN es : EncodeFails(es[i])) => f = NoFault
                  /\ es = <<>> => f = NoFault}

\* The faults that can strike Del(keys), which stops at its first failing
\* LocalCache call.
DelFaults(keys) ==
  {f \in Faults : /\ f.cache \subseteq DOMAIN keys
                  /\ Cardinality(f.cache) <= 1
                  /\ keys = <<>> => f = NoFault}

(***************************************************************************)
(* Calls on the collaborators.                                             *)
(***************************************************************************)
\* f.store.Set(e.Key, e.Data(), e.Expiration)
StoreSet(s, e) == Put(s, e.Key, [data |-> Data(e), ttl |-> e.Expiration])

\* f.cache.Set(e.Key, e.Data(), ttl); elig records the eligibility of the
\* entry that was written (history, read by no operation).
CacheSet(c, e, ttl) ==
  Put(c, e.Key, [data |-> Data(e), ttl |-> ttl, elig |-> EnableLocalCache(e)])

\* SetCacheTTL without the halving: the remote TTL.
SetCacheTTLFull(e) == e.Expiration

\* The TTL Set gives LocalCache.
SetCacheTTL(e) == e.Expiration \div 2

\* The TTL MSet gives LocalCache.
MSetCacheTTL(e) == e.Expiration

(***************************************************************************)
(* Set(e): encode, write RemoteStore, then LocalCache if eligible.         *)
(* The result: the tiers after the call and the error returned.            *)
(***************************************************************************)
\* SetRun with LocalCache written first, before the RemoteStore write.
SetRunCacheFirst(s, c, e, f) ==
  IF EncodeFails(e)
  THEN [store |-> s, cache |-> c, err |-> "EncodeError"]
  ELSE IF EnableLocalCache(e) /\ 1 \in f.cache
  THEN [store |-> s, cache |-> c, err |-> "LocalCacheError"]
  ELSE IF f.store
  THEN [store |-> s,
        cache |-> IF EnableLocalCache(e) THEN CacheSet(c, e, SetCacheTTL(e)) ELSE c,
        err |-> "RemoteStoreError"]
  ELSE [store |-> StoreSet(s, e),
        cache |-> IF EnableLocalCache(e) THEN CacheSet(c, e, SetCacheTTL(e)) ELSE c,
        err |-> "nil"]

SetRun(s, c, e, f) ==
  IF EncodeFails(e)
  THEN [store |-> s, cache |-> c, err |-> "EncodeError"]
  ELSE IF f.store
  THEN [store |-> s, cache |-> c, err |-> "RemoteStoreError"]
  ELSE IF EnableLocalCache(e)
  THEN IF 1 \in f.cache
       THEN [store |-> StoreSet(s, e), cache |-> c, err |-> "LocalCacheError"]
       ELSE [store |-> StoreSet(s, e), cache |-> CacheSet(c, e, SetCacheTTL(e)),
             err |-> "nil"]
  ELSE [store |-> StoreSet(s, e), cache |-> c, err |-> "nil"]

(***************************************************************************)
(* MSet(es): encode all and queue the remote writes, execute the pipeline, *)
(* then write each eligible entry to LocalCache until one write fails.     *)
(***************************************************************************)
\* The pipeline's queued Set commands applied in order.
RECURSIVE PipeSet(_, _)
PipeSet(s, es) == IF es = <<>> THEN s ELSE PipeSet(StoreSet(s, Head(es)), Tail(es))

\* The LocalCache writes of MSet from entry i on; stops at the first failure.
RECURSIVE MSetLocal(_, _, _, _), MSetLocalAll(_, _, _, _)
\* MSetLocal without the eligibility test: every entry is written.
MSetLocalAll(c, es, i, f) ==
  IF i > Len(es) THEN [cache |-> c, err |-> "nil"]
  ELSE IF i \in f.cache
  THEN [cache |-> c, err |-> "LocalCacheError"]
  ELSE MSetLocalAll(CacheSet(c, es[i], MSetCacheTTL(es[i])), es, i + 1, f)

MSetLocal(c, es, i, f) ==
  IF i > Len(es) THEN [cache |-> c, err |-> "nil"]
  ELSE IF EnableLocalCache(es[i])
  THEN IF i \in f.cache
       THEN [cache |-> c, err |-> "LocalCacheError"]
       ELSE MSetLocal(CacheSet(c, es[i], MSetCacheTTL(es[i])), es, i + 1, f)
  ELSE MSetLocal(c, es, i + 1, f)

\* MSetRun writing each entry to RemoteStore as soon as it is encoded,
\* instead of queueing it on the pipeline.
MSetRunEager(s, c, es, f) ==
  IF \E i \in DOMAIN es : EncodeFails(es[i])
  THEN [store |-> PipeSet(s, SubSeq(es, 1, Min({i \in DOMAIN es : EncodeFails(es[i])}) - 1)),
        cache |-> c, err |-> "EncodeError"]
  ELSE IF f.store
  THEN [store |-> s, cache |-> c, err |-> "RemoteStoreError"]
  ELSE LET l == MSetLocal(c, es, 1, f)
       IN  [store |-> PipeSet(s, es), cache |-> l.cache, err |-> l.err]

MSetRun(s, c, es, f) ==
  IF \E i \in DOMAIN es : EncodeFails(es[i])
  THEN [store |-> s, cache |-> c, err |-> "EncodeError"]
  ELSE IF f.store
  THEN [store |-> s, cache |-> c, err |-> "RemoteStoreError"]
  ELSE LET l == MSetLocal(c, es, 1, f)
       IN  [store |-> PipeSet(s, es), cache |-> l.cache, err |-> l.err]

(***************************************************************************)
(* Get(e): LocalCache first if eligible, then RemoteStore; a remote miss   *)
(* submits a backfill job and returns redis.Nil.                           *)
(* The result: the error, the value e carries afterwards, the jobs         *)
(* submitted, the number of RemoteStore calls, and LocalCache afterwards.  *)
(***************************************************************************)
\* GetLocalHit with the decoding left out: the entry keeps the value the
\* caller pre-populated.
GetLocalHitNoDecode(c, e) ==
  [err |-> "nil", value |-> e.Value, jobs |-> <<>>, calls |-> 0, cache |-> c]

\* The local branch taken when f.cache.Get returned no error.
GetLocalHit(c, e) ==
  LET data == c[e.Key].data
      ok == IsBytes(data)
  IN  IF ok /\ DecodeFails(e, data)
      THEN [err |-> "DecodeError", value |-> e.Value, jobs |-> <<>>, calls |-> 0,
            cache |-> c]
      ELSE [err |-> "nil", value |-> IF ok THEN Decoded(e, data) ELSE e.Value,
            jobs |-> <<>>, calls |-> 0, cache |-> c]

\* GetRemote with redis.Nil swallowed: a miss submits the job and returns nil.
GetRemoteSwallowNil(s, c, e, storeFault) ==
  IF storeFault
  THEN [err |-> "RemoteStoreError", value |-> e.Value, jobs |-> <<>>, calls |-> 1,
        cache |-> c]
  ELSE IF ~Has(s, e.Key)
  THEN [err |-> "nil", value |-> e.Value, jobs |-> <<BackfillJob(e)>>,
        calls |-> 1, cache |-> c]
  ELSE IF DecodeFails(e, s[e.Key].data)
  THEN [err |-> "DecodeError", value |-> e.Value, jobs |-> <<>>, calls |-> 1,
        cache |-> c]
  ELSE [err |-> "nil", value |-> Decoded(e, s[e.Key].data), jobs |-> <<>>,
        calls |-> 1, cache |-> c]

\* GetRemote that caches what it read: a remote hit of an eligible entry is
\* written to LocalCache.
GetRemotePopulate(s, c, e, storeFault) ==
  IF storeFault
  THEN [err |-> "RemoteStoreError", value |-> e.Value, jobs |-> <<>>, calls |-> 1,
        cache |-> c]
  ELSE IF ~Has(s, e.Key)
  THEN [err |-> "NotFound", value |-> e.Value, jobs |-> <<BackfillJob(e)>>,
        calls |-> 1, cache |-> c]
  ELSE IF DecodeFails(e, s[e.Key].data)
  THEN [err |-> "DecodeError", value |-> e.Value, jobs |-> <<>>, calls |-> 1,
        cache |-> c]
  ELSE [err |-> "nil", value |-> Decoded(e, s[e.Key].data), jobs |-> <<>>,
        calls |-> 1,
        cache |-> IF EnableLocalCache(e)
                  THEN Put(c, e.Key, [data |-> s[e.Key].data, ttl |-> e.Expiration,
                                      elig |-> TRUE])
                  ELSE c]

\* The remote branch: f.store.Get(e.Key).Bytes() and the switch on its error.
GetRemote(s, c, e, storeFault) ==
  IF storeFault
  THEN [err |-> "RemoteStoreError", value |-> e.Value, jobs |-> <<>>, calls |-> 1,
        cache |-> c]
  ELSE IF ~Has(s, e.Key)
  THEN [err |-> "NotFound", value |-> e.Value, jobs |-> <<BackfillJob(e)>>,
        calls |-> 1, cache |-> c]
  ELSE IF DecodeFails(e, s[e.Key].data)
  THEN [err |-> "DecodeError", value |-> e.Value, jobs |-> <<>>, calls |-> 1,
        cache |-> c]
  ELSE [err |-> "nil", value |-> Decoded(e, s[e.Key].data), jobs |-> <<>>,
        calls |-> 1, cache |-> c]

GetRun(s, c, e, storeFault) ==
  IF EnableLocalCache(e) /\ Has(c, e.Key)
  THEN GetLocalHit(c, e)
  ELSE GetRemote(s, c, e, storeFault)

(***************************************************************************)
(* Del(keys): RemoteStore first, then LocalCache key by key.               *)
(***************************************************************************)
\* The LocalCache deletions of Del from key i on; stops at the first failure.
RECURSIVE DelLocal(_, _, _, _), DelLocalContinue(_, _, _, _)
\* DelLocal going on after a failed deletion, as the eviction job does.
DelLocalContinue(c, keys, i, f) ==
  IF i > Len(keys) THEN [cache |-> c, err |-> "nil"]
  ELSE IF i \in f.cache
  THEN [cache |-> DelLocalContinue(c, keys, i + 1, f).cache, err |-> "LocalCacheError"]
  ELSE DelLocalContinue(Remove(c, keys[i]), keys, i + 1, f)

DelLocal(c, keys, i, f) ==
  IF i > Len(keys) THEN [cache |-> c, err |-> "nil"]
  ELSE IF i \in f.cache
  THEN [cache |-> c, err |-> "LocalCacheError"]
  ELSE DelLocal(Remove(c, keys[i]), keys, i + 1, f)

\* DelRun without the LocalCache loop: only RemoteStore is cleared.
DelRunRemoteOnly(s, c, keys, f) ==
  IF Len(keys) = 0
  THEN [store |-> s, cache |-> c, err |-> "nil"]
  ELSE IF f.store
  THEN [store |-> s, cache |-> c, err |-> "RemoteStoreError"]
  ELSE [store |-> RemoveAll(s, Range(keys)), cache |-> c, err |-> "nil"]

DelRun(s, c, keys, f) ==
  IF Len(keys) = 0
  THEN [store |-> s, cache |-> c, err |-> "nil"]
  ELSE IF f.store
  THEN [store |-> s, cache |-> c, err |-> "RemoteStoreError"]
  ELSE LET l == DelLocal(c, keys, 1, f)
       IN  [store |-> RemoveAll(s, Range(keys)), cache |-> l.cache, err |-> l.err]

(***************************************************************************)
(* batchGet(es): one chunk of MGet. Entries are Go pointers: the maps      *)
(* found and ret are keyed by identity, here the index of the entry in es. *)
(* The result: the indices returned as misses, the error, the jobs         *)
(* submitted, the number of pipeline Exec calls and the indices of the     *)
(* entries a payload was decoded into.                                     *)
(***************************************************************************)
\* Indices whose LocalCache lookup returns a []byte without error.
LocalHits(c, es) ==
  {i \in DOMAIN es : EnableLocalCache(es[i]) /\ Has(c, es[i].Key)
                       /\ IsBytes(c[es[i].Key].data)}

\* Indices for which a Get command is queued on the pipeline (pipe.Get).
Cmds(es) == {i \in DOMAIN es : ~EnableLocalCache(es[i])}

\* Indices put in found by the first loop.
FoundFirst(es) == {i \in DOMAIN es : EnableLocalCache(es[i])}

\* The increasing sequence of the indices i..n of es that satisfy Keep.
RECURSIVE Pick(_, _, _)
Pick(S, i, n) ==
  IF i > n THEN <<>>
  ELSE IF i \in S THEN <<i>> \o Pick(S, i + 1, n)
  ELSE Pick(S, i + 1, n)

\* Commands whose result makes the second loop return an error: an error
\* other than redis.Nil, or a payload that does not decode.
BadCmds(s, es, cmdFault) ==
  {i \in Cmds(es) : i \in cmdFault
     \/ (Has(s, es[i].Key) /\ DecodeFails(es[i], s[es[i].Key].data))}

\* The backfill jobs submitted for the indices of nils, in order.
BackfillJobs(es, nils) == [k \in DOMAIN nils |-> BackfillJob(es[nils[k]])]

\* The second loop, over the command results in command order, which stops
\* at index stop (Len(es) + 1: runs to the end), and the final loop that
\* collects the entries not in found.
BatchLoop(s, es, cmdFault, stop) ==
  [miss |-> IF stop > Len(es)
            THEN Pick({i \in DOMAIN es : i \notin FoundFirst(es)
                                          /\ ~(i \in Cmds(es) /\ Has(s, es[i].Key))},
                      1, Len(es))
            ELSE <<>>,
   err |-> IF stop > Len(es) THEN "nil"
           ELSE IF stop \in cmdFault THEN "RemoteStoreError" ELSE "DecodeError",
   jobs |-> BackfillJobs(es, Pick({i \in Cmds(es) : i < stop /\ ~Has(s, es[i].Key)},
                                  1, Len(es))),
   execs |-> 1,
   decoded |-> {i \in Cmds(es) : i < stop /\ Has(s, es[i].Key)}]

\* The index at which the second loop returns an error.
StopAt(es, bad) == IF bad = {} THEN Len(es) + 1 ELSE Min(bad)

BatchCmds(s, es, cmdFault) ==
  BatchLoop(s, es, cmdFault, StopAt(es, BadCmds(s, es, cmdFault)))

batchGetRun(s, c, es, execFault, cmdFault) ==
  LET lh == LocalHits(c, es)
  IN  IF lh # {}
      THEN LET i == Min(lh)
               bad == DecodeFails(es[i], c[es[i].Key].data)
           IN  [miss |-> <<>>, err |-> IF bad THEN "DecodeError" ELSE "nil",
                jobs |-> <<>>, execs |-> 0, decoded |-> IF bad THEN {} ELSE {i}]
      ELSE IF execFault
      THEN [miss |-> <<>>, err |-> "RemoteStoreError", jobs |-> <<>>, execs |-> 1,
            decoded |-> {}]
      ELSE BatchCmds(s, es, cmdFault)

(***************************************************************************)
(* MGet(es): batchGet on each chunk in turn; the first error aborts.       *)
(***************************************************************************)
\* mass.New(n, ChunkSize): the number of chunks, and chunk k's start, length.
NumChunks(n) == (n + ChunkSize - 1) \div ChunkSize

ChunkStart(k) == (k - 1) * ChunkSize

ChunkLen(n, k) == IF n - ChunkStart(k) < ChunkSize THEN n - ChunkStart(k) ELSE ChunkSize

\* Faults of one MGet(es): the chunk whose pipeline Exec fails
\* and the entry whose command returns an error other than redis.Nil (0: none).
MGetFaults(es) ==
  {f \in [execAt : 0..NumChunks(Len(es)), cmdAt : 0..Len(es)] :
     /\ f.execAt = 0 \/ f.cmdAt = 0
     /\ f.cmdAt # 0 => ~EnableLocalCache(es[f.cmdAt])}

NoMGetFault == [execAt |-> 0, cmdAt |-> 0]

\* missEntries = append(missEntries, ee...) for the chunk starting at start,
\* or the error return, which drops the list.
MGetAppend(acc, r, start) ==
  [miss |-> IF r.err # "nil" THEN <<>>
            ELSE acc.miss \o [j \in DOMAIN r.miss |-> start + r.miss[j]],
   err |-> r.err,
   jobs |-> acc.jobs \o r.jobs,
   execs |-> acc.execs + r.execs,
   decoded |-> acc.decoded \cup {start + i : i \in r.decoded}]

\* batchGet on chunk k of es.
MGetChunk(s, c, es, f, k) ==
  batchGetRun(s, c, SubSeq(es, ChunkStart(k) + 1, ChunkStart(k) + ChunkLen(Len(es), k)),
              f.execAt = k, {f.cmdAt - ChunkStart(k)})

\* The loop over the chunks, from chunk k on.
RECURSIVE MGetFrom(_, _, _, _, _, _)
MGetFrom(s, c, es, f, k, acc) ==
  IF k > NumChunks(Len(es)) \/ acc.err # "nil" THEN acc
  ELSE MGetFrom(s, c, es, f, k + 1,
                MGetAppend(acc, MGetChunk(s, c, es, f, k), ChunkStart(k)))

MGetRun(s, c, es, f) ==
  MGetFrom(s, c, es, f, 1,
           [miss |-> <<>>, err |-> "nil", jobs |-> <<>>, execs |-> 0, decoded |-> {}])

(***************************************************************************)
(* Jobs run by the dispatcher.                                             *)
(***************************************************************************)
\* The eviction job's loop: f.cache.Del on every key; a failure is printed
\* and the loop goes on.
RECURSIVE EvictKeys(_, _, _, _), EvictKeysStopAtFailure(_, _, _, _)
\* EvictKeys returning at the first failed deletion, as Del does.
EvictKeysStopAtFailure(c, keys, i, f) ==
  IF i > Len(keys) \/ i \in f.cache THEN c
  ELSE EvictKeysStopAtFailure(Remove(c, keys[i]), keys, i + 1, f)

\* EvictKeys evicting the first key of the message only.
EvictKeysFirstOnly(c, keys, i, f) ==
  IF i > Len(keys) \/ i \in f.cache THEN c ELSE Remove(c, keys[i])

EvictKeys(c, keys, i, f) ==
  IF i > Len(keys) THEN c
  ELSE IF i \in f.cache THEN EvictKeys(c, keys, i + 1, f)
  ELSE EvictKeys(Remove(c, keys[i]), keys, i + 1, f)

\* The eviction job: unmarshal the payload, then evict its keys.
EvictRun(c, p, f) ==
  IF ~p.valid THEN [cache |-> c, err |-> "UnmarshalError"]
  ELSE [cache |-> EvictKeys(c, p.keys, 1, f), err |-> "nil"]

\* The faults that can strike job j.
JobFaults(j) ==
  IF j.kind = "backfill" THEN SetFaults(j.e)
  ELSE {f \in Faults : ~f.store /\ f.cache \subseteq DOMAIN j.payload.keys}

\* JobRun whose backfill writes RemoteStore only (f.store.Set, not f.Set).
JobRunStoreOnly(s, c, j, f) ==
  IF j.kind = "backfill"
  THEN [store |-> SetRun(s, c, j.e, f).store, cache |-> c,
        err |-> SetRun(s, c, j.e, [f EXCEPT !.cache = {}]).err]
  ELSE LET r == EvictRun(c, j.payload, f)
       IN  [store |-> s, cache |-> r.cache, err |-> r.err]

\* JobRun whose eviction deletes from both tiers (f.Del, not f.cache.Del).
JobRunEvictBoth(s, c, j, f) ==
  IF j.kind = "backfill" THEN SetRun(s, c, j.e, f)
  ELSE LET r == EvictRun(c, j.payload, f)
       IN  [store |-> RemoveAll(s, Range(j.payload.keys)), cache |-> r.cache,
            err |-> r.err]

\* A job's function applied to its argument.
JobRun(s, c, j, f) ==
  IF j.kind = "backfill" THEN SetRun(s, c, j.e, f)
  ELSE LET r == EvictRun(c, j.payload, f)
       IN  [store |-> s, cache |-> r.cache, err |-> r.err]

(***************************************************************************)
(* The state machine.                                                      *)
(***************************************************************************)
\* Whether the dispatcher has room for the jobs js.
Room(js) == BagCardinality(queue) + Len(js) <= MaxJobs

\* Submit on a dispatcher that drops a job equal to one it already holds.
SubmitCoalesced(js) == queue' = SetToBag(BagToSet(queue (+) BagOf(js)))

\* f.dispatcher.SubmitAsync for each job of js.
Submit(js) == queue' = queue (+) BagOf(js)

TypeOK ==
  /\ DOMAIN store \subseteq Keys
  /\ DOMAIN cache \subseteq Keys
  /\ subState \in {"Active", "Closed"}
  /\ BagCardinality(queue) <= MaxJobs

\* New(): empty tiers, no job pending, the subscriber goroutine consuming.
Init ==
  /\ store = Empty
  /\ cache = Empty
  /\ queue = EmptyBag
  /\ subState = "Active"

Set(e, f) ==
  \E r \in {SetRun(store, cache, e, f)} :
      /\ store' = r.store
      /\ cache' = r.cache
      /\ UNCHANGED <<queue, subState>>

MSet(es, f) ==
  \E r \in {MSetRun(store, cache, es, f)} :
      /\ store' = r.store
      /\ cache' = r.cache
      /\ UNCHANGED <<queue, subState>>

Get(e, storeFault) ==
  \E r \in {GetRun(store, cache, e, storeFault)} :
      /\ Room(r.jobs)
      /\ Submit(r.jobs)
      /\ cache' = r.cache
      /\ UNCHANGED <<store, subState>>

MGet(es, f) ==
  /\ UNCHANGED <<store, cache, subState>>
  /\ \E r \in {MGetRun(store, cache, es, f)} :
         /\ Room(r.jobs)
         /\ Submit(r.jobs)

\* Del that also takes the pending backfill jobs of its keys off the
\* dispatcher.
DelCancelsJobs(keys, f) ==
  \E r \in {DelRun(store, cache, keys, f)} :
      /\ store' = r.store
      /\ cache' = r.cache
      /\ queue' = [j \in {x \in DOMAIN queue :
                            ~(x.kind = "backfill" /\ x.e.Key \in Range(keys))}
                     |-> queue[j]]
      /\ UNCHANGED subState

Del(keys, f) ==
  \E r \in {DelRun(store, cache, keys, f)} :
      /\ store' = r.store
      /\ cache' = r.cache
      /\ UNCHANGED <<queue, subState>>

\* sub on a subscriber that goes on receiving after the channel closed.
subResubscribed(p) ==
  /\ Room(<<EvictJob(p)>>)
  /\ Submit(<<EvictJob(p)>>)
  /\ UNCHANGED <<store, cache, subState>>

\* The subscriber loop receives a message and submits its eviction job.
sub(p) ==
  /\ subState = "Active"
  /\ Room(<<EvictJob(p)>>)
  /\ Submit(<<EvictJob(p)>>)
  /\ UNCHANGED <<store, cache, subState>>

\* The channel closes: the loop ends and pubSub.Close() runs.
subClose ==
  /\ subState = "Active"
  /\ subState' = "Closed"
  /\ UNCHANGED <<store, cache, queue>>

\* A dispatcher worker runs one pending job.
RunJob(j, f) ==
  /\ BagIn(j, queue)
  /\ \E r \in {JobRun(store, cache, j, f)} :
         /\ store' = r.store
         /\ cache' = r.cache
  /\ queue' = queue (-) SetToBag({j})
  /\ UNCHANGED subState

\* A key's TTL runs out in LocalCache.
CacheExpire(k) ==
  /\ Has(cache, k)
  /\ cache' = Remove(cache, k)
  /\ UNCHANGED <<store, queue, subState>>

\* A key's TTL runs out in RemoteStore.
StoreExpire(k) ==
  /\ Has(store, k)
  /\ store' = Remove(store, k)
  /\ UNCHANGED <<cache, queue, subState>>

\* The argument lists the callers pass.
MSetInputs ==
  {es \in SeqsOf(BatchWriteEntries, 0, MaxBatch) :
     \A i, j \in DOMAIN es : es[i].Key = es[j].Key => i = j}

MGetInputs == SeqsOf(ReadEntries, 0, MaxBatch)

DelInputs == SeqsOf(Keys, 0, 2)

Next ==
  \/ \E e \in WriteEntries : \E f \in SetFaults(e) : Set(e, f)
  \/ \E es \in MSetInputs : \E f \in MSetFaults(es) : MSet(es, f)
  \/ \E e \in ReadEntries, sf \in BOOLEAN : Get(e, sf)
  \/ \E es \in MGetInputs : \E f \in MGetFaults(es) : MGet(es, f)
  \/ \E keys \in DelInputs : \E f \in DelFaults(keys) : Del(keys, f)
  \/ \E p \in Payloads : sub(p)
  \/ subClose
  \/ \E j \in BagToSet(queue) : \E f \in JobFaults(j) : RunJob(j, f)
  \/ \E k \in Keys : CacheExpire(k)
  \/ \E k \in Keys : StoreExpire(k)

Spec == Init /\ [][Next]_vars

(***************************************************************************)
(* Which step a transition is, for the properties that say which steps may *)
(* change a tier.                                                          *)
(***************************************************************************)
\* A Set, an MSet or a backfill job that writes key k.
WritesKey(k) ==
  \/ \E e \in WriteEntries : \E f \in SetFaults(e) : e.Key = k /\ Set(e, f)
  \/ \E es \in MSetInputs : \E f \in MSetFaults(es) :
       (\E i \in DOMAIN es : es[i].Key = k) /\ MSet(es, f)
  \/ \E j \in BagToSet(queue) : \E f \in JobFaults(j) :
       j.kind = "backfill" /\ j.e.Key = k /\ RunJob(j, f)

\* A Del, an eviction job or a LocalCache expiry of key k.
RemovesKey(k) ==
  \/ \E keys \in DelInputs : \E f \in DelFaults(keys) :
       k \in Range(keys) /\ Del(keys, f)
  \/ \E j \in BagToSet(queue) : \E f \in JobFaults(j) :
       j.kind = "evict" /\ k \in Range(j.payload.keys) /\ RunJob(j, f)
  \/ CacheExpire(k)

(***************************************************************************)
(* C1. After a successful Set(e) of a locally-cacheable entry, Get(e)      *)
(* succeeds with the value that was set and makes no RemoteStore call,     *)
(* as long as no Del, eviction job or expiry of e.Key intervenes.          *)
(***************************************************************************)
\* A successful Set(e) leaves e's payload in LocalCache, and Get(e) right
\* after it is served from LocalCache.
C1_SetThenGet ==
  \A e \in WriteEntries, f \in Faults, sf \in BOOLEAN :
    LET r == SetRun(store, cache, e, f)
        g == GetRun(r.store, r.cache, [e EXCEPT !.Value = "s0"], sf)
    IN  (EnableLocalCache(e) /\ r.err = "nil" /\ TypeOf(e.Value) = "str") =>
          /\ g.err = "nil"
          /\ g.value = e.Value
          /\ g.calls = 0
          /\ g.jobs = <<>>

\* While LocalCache holds the payload, every Get of a same-typed eligible
\* entry with that key is served from it.
C1_ServedLocally ==
  \A e \in ReadEntries, sf \in BOOLEAN :
    (EnableLocalCache(e) /\ Has(cache, e.Key) /\ ~DecodeFails(e, cache[e.Key].data)) =>
      LET g == GetRun(store, cache, e, sf)
      IN  g.err = "nil" /\ g.value = cache[e.Key].data.body /\ g.calls = 0

\* The payload stays in LocalCache until a Del, an eviction job or an expiry
\* of the key, or a later write of the key.
C1_Kept ==
  \A k \in Keys :
    (Has(cache, k) /\ (~Has(cache', k) \/ cache'[k].data # cache[k].data)) =>
      RemovesKey(k) \/ WritesKey(k)

C1_SetThenGetLocal == [](C1_SetThenGet /\ C1_ServedLocally) /\ [][C1_Kept]_vars

\* A successful Set of an eligible entry has acted: LocalCache holds its
\* payload with Set's TTL and a Get of it is served locally.
C1_Witness ==
  \E k \in Keys :
    /\ Has(cache, k) /\ cache[k].data.body = "s1" /\ cache[k].ttl = Expiration \div 2
    /\ GetRun(store, cache, [Key |-> k, Value |-> "s0", Expiration |-> Expiration,
                             local |-> TRUE], FALSE).value = "s1"

(***************************************************************************)
(* C2. A Get(e) of a key absent from LocalCache and RemoteStore (the       *)
(* RemoteStore query answering) returns NotFound to the caller and submits *)
(* exactly one backfill job, which carries e.                              *)
(***************************************************************************)
AbsentBoth(k) == ~Has(cache, k) /\ ~Has(store, k)

C2_Outcome ==
  \A e \in ReadEntries :
    AbsentBoth(e.Key) =>
      LET g == GetRun(store, cache, e, FALSE)
      IN  g.err = "NotFound" /\ g.jobs = <<BackfillJob(e)>> /\ g.calls = 1

\* The Get step itself adds that one job to the dispatcher and nothing else.
C2_Step ==
  \A e \in ReadEntries :
    (AbsentBoth(e.Key) /\ Get(e, FALSE)) =>
      /\ queue' = queue (+) SetToBag({BackfillJob(e)})
      /\ BagCardinality(queue') = BagCardinality(queue) + 1

C2_MissSubmitsOneBackfill == []C2_Outcome /\ [][C2_Step]_vars

\* A Get has missed in both tiers: its backfill job is pending and the key
\* is still absent from both.
C2_Witness ==
  \E e \in ReadEntries :
    /\ AbsentBoth(e.Key)
    /\ BagIn(BackfillJob(e), queue)
    /\ CopiesIn(BackfillJob(e), queue) = 1

(***************************************************************************)
(* C3. The miss list of an MGet that returns without error is the input    *)
(* entries minus those found in LocalCache (eligible entries) or in        *)
(* RemoteStore: all of the unresolved entries, none of the resolved ones.  *)
(***************************************************************************)
\* Entry e is found in a tier.
InTier(e) == (EnableLocalCache(e) /\ Has(cache, e.Key)) \/ Has(store, e.Key)

\* The miss list the claim describes for MGet(es), as indices of es.
ExpectedMiss(es) == Pick({i \in DOMAIN es : ~InTier(es[i])}, 1, Len(es))

C3_MissListExact ==
  \A es \in MGetInputs :
    LET r == MGetRun(store, cache, es, NoMGetFault)
    IN  r.err = "nil" => r.miss = ExpectedMiss(es)

(***************************************************************************)
(* C4. An MGet over N entries that runs to the end executes exactly        *)
(* ceil(N / ChunkSize) pipelines, whatever the eligibility of the entries  *)
(* and the hits or misses in LocalCache.                                   *)
(***************************************************************************)
C4_ExecPerChunk ==
  \A es \in MGetInputs :
    LET r == MGetRun(store, cache, es, NoMGetFault)
    IN  r.err = "nil" => r.execs = NumChunks(Len(es))

(***************************************************************************)
(* C5. After a successful Del(k1, k2) neither key is in RemoteStore or in  *)
(* LocalCache, and a Get of either (the RemoteStore query answering)       *)
(* returns NotFound until a Set, an MSet or a backfill job writes the key. *)
(***************************************************************************)
C5_DelOutcome ==
  \A keys \in DelInputs : \A f \in DelFaults(keys) :
    LET d == DelRun(store, cache, keys, f)
    IN  d.err = "nil" =>
          \A k \in Range(keys) :
            /\ ~Has(d.store, k)
            /\ ~Has(d.cache, k)
            /\ \A e \in ReadEntries :
                 e.Key = k => GetRun(d.store, d.cache, e, FALSE).err = "NotFound"

\* A key absent from both tiers stays absent, and its Get keeps returning
\* NotFound, until a Set, an MSet or a backfill job of that key.
C5_Until ==
  \A k \in Keys :
    (AbsentBoth(k) /\ ~WritesKey(k)) =>
      /\ ~Has(store', k)
      /\ ~Has(cache', k)

C5_DelThenNotFound == []C5_DelOutcome /\ [][C5_Until]_vars

\* Both keys are in both tiers and Del(a, b) succeeds from here.
C5_Witness ==
  /\ \A k \in Keys : Has(store, k) /\ Has(cache, k)
  /\ DelRun(store, cache, <<"a", "b">>, NoFault).err = "nil"
  /\ DelRun(store, cache, <<"a", "b">>, NoFault).cache = Empty

(***************************************************************************)
(* The behaviours in which no LocalCache deletion of an eviction job       *)
(* fails and the dispatcher eventually runs every job it holds.            *)
(***************************************************************************)
Jobs == {BackfillJob(e) : e \in ReadEntries} \cup {EvictJob(p) : p \in Payloads}

\* The faults of job j when evictions do not fail.
NominalJobFaults(j) == IF j.kind = "evict" THEN {NoFault} ELSE JobFaults(j)

RunsJob(j) == \E f \in NominalJobFaults(j) : RunJob(j, f)

NominalNext ==
  \/ \E e \in WriteEntries : \E f \in SetFaults(e) : Set(e, f)
  \/ \E es \in MSetInputs : \E f \in MSetFaults(es) : MSet(es, f)
  \/ \E e \in ReadEntries, sf \in BOOLEAN : Get(e, sf)
  \/ \E es \in MGetInputs : \E f \in MGetFaults(es) : MGet(es, f)
  \/ \E keys \in DelInputs : \E f \in DelFaults(keys) : Del(keys, f)
  \/ \E p \in Payloads : sub(p)
  \/ subClose
  \/ \E j \in BagToSet(queue) : RunsJob(j)
  \/ \E k \in Keys : CacheExpire(k)
  \/ \E k \in Keys : StoreExpire(k)

NominalFairSpec ==
  Init /\ [][NominalNext]_vars /\ \A j \in Jobs : WF_vars(RunsJob(j))

(***************************************************************************)
(* C6. An invalidation message encoding [a, b], delivered while the        *)
(* subscription is Active, whoever published it, makes LocalCache hold     *)
(* neither a nor b eventually, given that the dispatcher runs the jobs     *)
(* submitted to it and that the evictions themselves do not fail.          *)
(***************************************************************************)
MsgAB == Pack(<<"a", "b">>)

NeitherCached == ~Has(cache, "a") /\ ~Has(cache, "b")

\* The message received becomes a pending eviction job.
C6_Delivered ==
  (subState = "Active" /\ sub(MsgAB)) => BagIn(EvictJob(MsgAB), queue')

\* The eviction job, run without a LocalCache failure, evicts both keys.
C6_EvictOutcome ==
  LET r == JobRun(store, cache, EvictJob(MsgAB), NoFault)
  IN  ~Has(r.cache, "a") /\ ~Has(r.cache, "b") /\ r.store = store

C6_Eventually == BagIn(EvictJob(MsgAB), queue) ~> NeitherCached

C7_SetRemoteFirst ==
  \A e \in WriteEntries, f \in Faults :
    LET r == SetRun(store, cache, e, f)
    IN  /\ (EncodeFails(e) \/ f.store) =>
             r.err \in {"EncodeError", "RemoteStoreError"} /\ r.cache = cache
        /\ (~EncodeFails(e) /\ ~f.store /\ EnableLocalCache(e) /\ 1 \in f.cache) =>
             /\ r.err = "LocalCacheError"
             /\ r.cache = cache
             /\ r.store = StoreSet(store, e)
        /\ r.cache # cache => r.store = StoreSet(store, e)

\* A Set whose RemoteStore write fails would change nothing here although
\* LocalCache does not already hold its payload, and a Set whose LocalCache
\* write failed has acted: RemoteStore holds what LocalCache lacks.
C7_Witness ==
  \E e \in WriteEntries :
    /\ EnableLocalCache(e) /\ ~EncodeFails(e)
    /\ Has(store, e.Key) /\ store[e.Key].data = Data(e)
    /\ ~Has(cache, e.Key)
    /\ SetRun(store, cache, e, [store |-> TRUE, cache |-> {}]).err = "RemoteStoreError"

(***************************************************************************)
(* C8. An MSet that fails because an entry does not encode or because the  *)
(* pipelined batch returns an error has written no entry to RemoteStore    *)
(* or to LocalCache.                                                       *)
(***************************************************************************)
C8_MSetFailWritesNothing ==
  \A es \in MSetInputs, f \in Faults :
    LET r == MSetRun(store, cache, es, f)
    IN  ((\E i \in DOMAIN es : EncodeFails(es[i])) \/ f.store) =>
          /\ r.err \in {"EncodeError", "RemoteStoreError"}
          /\ r.store = store
          /\ r.cache = cache

\* An MSet whose second entry does not encode is called where its first
\* entry is in neither tier.
C8_Witness ==
  \E es \in MSetInputs :
    /\ Len(es) = 2 /\ ~EncodeFails(es[1]) /\ EncodeFails(es[2])
    /\ AbsentBoth(es[1].Key)
    /\ Has(store, es[2].Key)
    /\ MSetRun(store, cache, es, NoFault).err = "EncodeError"

(***************************************************************************)
(* C9. An entry that is not eligible for local caching is never written    *)
(* to LocalCache: whatever LocalCache holds was written for an eligible    *)
(* entry, and no operation on a non-eligible entry changes LocalCache.     *)
(***************************************************************************)
C9_OnlyEligibleCached ==
  /\ \A k \in DOMAIN cache : cache[k].elig
  /\ \A e \in WriteEntries, f \in Faults :
       ~EnableLocalCache(e) => SetRun(store, cache, e, f).cache = cache
  /\ \A e \in ReadEntries, sf \in BOOLEAN :
       ~EnableLocalCache(e) => GetRun(store, cache, e, sf).cache = cache
  /\ \A es \in MSetInputs, f \in Faults :
       (\A i \in DOMAIN es : ~EnableLocalCache(es[i])) =>
          MSetRun(store, cache, es, f).cache = cache

\* A non-eligible entry has been written: its payload is in RemoteStore
\* under a key LocalCache does not hold, beside an eligible entry that is
\* in LocalCache.
C9_Witness ==
  \E e \in BatchWriteEntries :
    /\ ~EnableLocalCache(e) /\ ~EncodeFails(e)
    /\ Has(store, e.Key) /\ store[e.Key].data = Data(e)
    /\ ~Has(cache, e.Key)
    /\ \E k \in Keys : Has(cache, k)

(***************************************************************************)
(* Get over every result LocalCache's Get(key) (interface{}, error) can    *)
(* give: no entry (an error), a []byte payload of either type, or a value  *)
(* that is not a []byte. The facade itself only ever stores []byte.        *)
(***************************************************************************)
NotBytes == [typ |-> "iface", body |-> "s1"]

\* The payloads the codec produces.
BytePayloads == {Data(e) : e \in {x \in Entries : ~EncodeFails(x)}}

LookupCaches ==
  UNION {[S -> [data : BytePayloads \cup {NotBytes}, ttl : {Expiration}, elig : {TRUE}]] :
           S \in SUBSET Keys}

LookupStores ==
  UNION {[S -> [data : BytePayloads, ttl : {Expiration}]] : S \in SUBSET Keys}

LookupInit ==
  /\ store \in LookupStores
  /\ cache \in LookupCaches
  /\ queue = EmptyBag
  /\ subState = "Active"

LookupNext == \E e \in ReadEntries, sf \in BOOLEAN : Get(e, sf)

LookupSpec == LookupInit /\ [][LookupNext]_vars

C11_RemoteBatchResolves ==
  \A es \in MGetInputs :
    LET r == MGetRun(store, cache, es, NoMGetFault)
        unhit == DOMAIN es \ LocalHits(cache, es)
    IN  r.err = "nil" =>
          \A i \in unhit :
            IF Has(store, es[i].Key)
            THEN i \in r.decoded /\ i \notin Range(r.miss)
            ELSE /\ i \in Range(r.miss)
                 /\ Cardinality({k \in DOMAIN r.jobs : r.jobs[k] = BackfillJob(es[i])})
                      = Cardinality({j \in unhit : es[j] = es[i]})

(***************************************************************************)
(* C12. A backfill job run by the dispatcher does what Set does on the     *)
(* entry the caller passed to Get or MGet, which still carries the value   *)
(* the caller pre-populated: when it succeeds RemoteStore holds the        *)
(* encoding of that value under the entry's key with the entry's TTL,      *)
(* LocalCache is written with it when the entry is eligible and is left    *)
(* alone when it is not; the job submits no job.                           *)
(***************************************************************************)
C12_Outcome ==
  \A j \in BagToSet(queue) :
    j.kind = "backfill" =>
      /\ j.e \in ReadEntries
      /\ \A f \in JobFaults(j) :
           LET r == JobRun(store, cache, j, f)
           IN  r.err = "nil" =>
                 /\ Has(r.store, j.e.Key)
                 /\ r.store[j.e.Key] = [data |-> Data(j.e), ttl |-> j.e.Expiration]
                 /\ EnableLocalCache(j.e) =>
                      Has(r.cache, j.e.Key) /\ r.cache[j.e.Key].data = Data(j.e)
                 /\ ~EnableLocalCache(j.e) => r.cache = cache

\* The step that runs the job takes it off the dispatcher and adds none.
C12_Step ==
  \A j \in BagToSet(queue) : \A f \in JobFaults(j) :
    (j.kind = "backfill" /\ RunJob(j, f)) =>
      /\ queue' = queue (-) SetToBag({j})
      /\ BagCardinality(queue') = BagCardinality(queue) - 1

C12_BackfillRunsSet == []C12_Outcome /\ [][C12_Step]_vars

\* A backfill job of an eligible entry has run: both tiers hold the value
\* a Get caller pre-populated, which only a backfill job writes.
C12_Witness ==
  \E e \in ReadEntries :
    /\ EnableLocalCache(e)
    /\ Has(store, e.Key) /\ store[e.Key].data = Data(e)
    /\ Has(cache, e.Key) /\ cache[e.Key].data = Data(e)
    /\ queue = EmptyBag

(***************************************************************************)
(* C13. Set writes RemoteStore with the entry's TTL T and LocalCache with  *)
(* T/2; MSet writes RemoteStore with T and LocalCache with the full T.     *)
(***************************************************************************)
\* The outcome of the two calls on an eligible entry.
C13_Written ==
  /\ \A e \in WriteEntries :
       LET r == SetRun(store, cache, e, NoFault)
       IN  (EnableLocalCache(e) /\ r.err = "nil") =>
             /\ r.store[e.Key].ttl = e.Expiration
             /\ 2 * r.cache[e.Key].ttl <= e.Expiration
             /\ e.Expiration < 2 * r.cache[e.Key].ttl + 2
  /\ \A es \in MSetInputs :
       LET r == MSetRun(store, cache, es, NoFault)
       IN  r.err = "nil" =>
             \A i \in DOMAIN es :
               /\ r.store[es[i].Key].ttl = es[i].Expiration
               /\ EnableLocalCache(es[i]) => r.cache[es[i].Key].ttl = es[i].Expiration

\* What the tiers hold: strings come from Set (and from backfill jobs, which
\* run Set), numbers from MSet.
C13_Held ==
  /\ \A k \in DOMAIN store : store[k].ttl = Expiration
  /\ \A k \in DOMAIN cache :
       IF cache[k].data.typ = "num"
       THEN cache[k].ttl = Expiration
       ELSE 2 * cache[k].ttl <= Expiration /\ Expiration < 2 * cache[k].ttl + 2

C13_LocalTTL == C13_Written /\ C13_Held

\* LocalCache holds one key written by Set and one written by MSet, with
\* different TTLs.
C13_Witness ==
  /\ Has(cache, "a") /\ Has(cache, "b")
  /\ cache["a"].data.typ = "str" /\ cache["a"].ttl = Expiration \div 2
  /\ cache["b"].data.typ = "num" /\ cache["b"].ttl = Expiration
  /\ cache["a"].ttl < cache["b"].ttl

(***************************************************************************)
(* C14. Del of no key changes neither tier. Del of some keys deletes them  *)
(* all from RemoteStore first, and leaves LocalCache untouched if that     *)
(* fails. Then it deletes them from LocalCache in input order and returns  *)
(* at the first LocalCache failure: the keys before it are gone from       *)
(* LocalCache, the keys after it (that do not also come before it) stay as *)
(* they were, and RemoteStore holds none of the keys.                      *)
(***************************************************************************)
C14_DelPartial ==
  \A keys \in DelInputs : \A f \in DelFaults(keys) :
    LET d == DelRun(store, cache, keys, f)
    IN  /\ keys = <<>> => d.store = store /\ d.cache = cache /\ d.err = "nil"
        /\ (keys # <<>> /\ f.store) =>
             d.err = "RemoteStoreError" /\ d.cache = cache /\ d.store = store
        /\ (keys # <<>> /\ ~f.store) =>
             /\ \A k \in Range(keys) : ~Has(d.store, k)
             /\ \A i \in f.cache :
                  /\ d.err = "LocalCacheError"
                  /\ \A n \in 1..(i - 1) : ~Has(d.cache, keys[n])
                  /\ \A n \in i..Len(keys) :
                       keys[n] \notin {keys[m] : m \in 1..(i - 1)} =>
                         /\ Has(d.cache, keys[n]) = Has(cache, keys[n])
                         /\ Has(cache, keys[n]) => d.cache[keys[n]] = cache[keys[n]]
             /\ f.cache = {} => d.err = "nil" /\ \A k \in Range(keys) : ~Has(d.cache, k)

\* Both keys are in both tiers, and a Del(a, b) whose second LocalCache
\* deletion fails leaves b cached though RemoteStore has lost it.
C14_Witness ==
  /\ \A k \in Keys : Has(store, k) /\ Has(cache, k)
  /\ LET d == DelRun(store, cache, <<"a", "b">>, [store |-> FALSE, cache |-> {2}])
     IN  /\ d.err = "LocalCacheError"
         /\ d.store = Empty
         /\ DOMAIN d.cache = {"b"}

(***************************************************************************)
(* C15. In an eviction job a failed LocalCache deletion of one key does    *)
(* not stop the job: every other key of the message is evicted; and the    *)
(* subscriber goes on, so the jobs of the other messages stay pending and  *)
(* the subscription stays as it was.                                       *)
(***************************************************************************)
C15_Outcome ==
  \A p \in Payloads :
    p.valid =>
      \A f \in JobFaults(EvictJob(p)) :
        LET r == JobRun(store, cache, EvictJob(p), f)
        IN  /\ r.err = "nil"
            /\ \A i \in DOMAIN p.keys :
                 i \notin f.cache => ~Has(r.cache, p.keys[i])

C15_Step ==
  \A j \in BagToSet(queue) : \A f \in JobFaults(j) :
    (j.kind = "evict" /\ RunJob(j, f)) =>
      /\ subState' = subState
      /\ queue' = queue (-) SetToBag({j})

C15_EvictionGoesOn == []C15_Outcome /\ [][C15_Step]_vars

\* The eviction job of [a, b] is pending with both keys cached, and run
\* with a failing deletion of a it still evicts b.
C15_Witness ==
  /\ BagIn(EvictJob(MsgAB), queue)
  /\ subState = "Active"
  /\ LET r == JobRun(store, cache, EvictJob(MsgAB), [store |-> FALSE, cache |-> {1}])
     IN  Has(cache, "b") /\ Has(r.cache, "a") /\ ~Has(r.cache, "b")

(***************************************************************************)
(* C16. The subscription only goes from Active to Closed: once Closed it   *)
(* stays Closed, and no step adds an eviction job to the dispatcher.       *)
(***************************************************************************)
C16_Closed ==
  subState = "Closed" =>
    /\ subState' = "Closed"
    /\ \A p \in Payloads : CopiesIn(EvictJob(p), queue') <= CopiesIn(EvictJob(p), queue)

C16_Change == subState' # subState => subState = "Active" /\ subState' = "Closed"

C16_ClosedIsTerminal == [][C16_Closed /\ C16_Change]_vars

\* The channel has closed while LocalCache holds a key and no eviction job
\* is pending: no broadcast will evict it.
C16_Witness ==
  /\ subState = "Closed"
  /\ \E k \in Keys : Has(cache, k) /\ Has(store, k)
  /\ \A p \in Payloads : ~BagIn(EvictJob(p), queue)

(***************************************************************************)
(* C17. With an eviction job for key K in flight, a Set or MSet of an      *)
(* eligible entry of key K has two outcomes, by the order of completion:   *)
(* the job first, and LocalCache holds K; the write first, and LocalCache  *)
(* does not hold K while RemoteStore does. Both orders are possible:       *)
(* nothing disables the write or the job while the other is pending.       *)
(***************************************************************************)
\* The two orders of the job and a write w (SetRun or MSetRun applied).
C17_SetRace ==
  \A e \in WriteEntries :
    (EnableLocalCache(e) /\ ~EncodeFails(e) /\ BagIn(EvictJob(MsgAB), queue)) =>
      LET j1 == JobRun(store, cache, EvictJob(MsgAB), NoFault)
          w1 == SetRun(j1.store, j1.cache, e, NoFault)
          w2 == SetRun(store, cache, e, NoFault)
          j2 == JobRun(w2.store, w2.cache, EvictJob(MsgAB), NoFault)
      IN  /\ Has(w1.cache, e.Key) /\ Has(w1.store, e.Key)
          /\ ~Has(j2.cache, e.Key) /\ Has(j2.store, e.Key)
          /\ ENABLED Set(e, NoFault)
          /\ ENABLED RunJob(EvictJob(MsgAB), NoFault)

C17_MSetRace ==
  \A es \in MSetInputs :
    (Len(es) = 1 /\ EnableLocalCache(es[1]) /\ ~EncodeFails(es[1])
       /\ BagIn(EvictJob(MsgAB), queue)) =>
      LET j1 == JobRun(store, cache, EvictJob(MsgAB), NoFault)
          w1 == MSetRun(j1.store, j1.cache, es, NoFault)
          w2 == MSetRun(store, cache, es, NoFault)
          j2 == JobRun(w2.store, w2.cache, EvictJob(MsgAB), NoFault)
      IN  /\ Has(w1.cache, es[1].Key) /\ Has(w1.store, es[1].Key)
          /\ ~Has(j2.cache, es[1].Key) /\ Has(j2.store, es[1].Key)
          /\ ENABLED MSet(es, NoFault)

C17_RaceOutcomes == C17_SetRace /\ C17_MSetRace

\* The write completed while the eviction job is still pending: the job
\* will leave K in RemoteStore only.
C17_Witness ==
  /\ BagIn(EvictJob(MsgAB), queue)
  /\ Has(cache, "a") /\ cache["a"].data.body = "s1"
  /\ Has(store, "a") /\ store["a"].data.body = "s1"

(***************************************************************************)
(* C18. Gets of the same key missing from both tiers are not coalesced:    *)
(* each Get that sees the remote miss submits its own backfill job, also   *)
(* when an equal job is already pending, so n such Gets leave n jobs.      *)
(***************************************************************************)
C18_Step ==
  \A e \in ReadEntries :
    (AbsentBoth(e.Key) /\ BagIn(BackfillJob(e), queue) /\ Get(e, FALSE)) =>
      CopiesIn(BackfillJob(e), queue') = CopiesIn(BackfillJob(e), queue) + 1

\* With an equal job pending (and room in the dispatcher) the Get can be
\* taken and leaves one more copy of the job.
C18_Another ==
  \A e \in ReadEntries :
    (AbsentBoth(e.Key) /\ BagIn(BackfillJob(e), queue) /\ Room(<<BackfillJob(e)>>)) =>
      ENABLED (/\ Get(e, FALSE)
               /\ CopiesIn(BackfillJob(e), queue') = CopiesIn(BackfillJob(e), queue) + 1)

C18_NoCoalescing == []C18_Another /\ [][C18_Step]_vars

\* Two Gets of the same missing key have each left a job.
C18_Witness ==
  \E e \in ReadEntries :
    /\ AbsentBoth(e.Key)
    /\ CopiesIn(BackfillJob(e), queue) >= 2

(***************************************************************************)
(* C19. Del leaves the pending backfill jobs alone: a job of key K that is *)
(* pending when Del(K) succeeds, run afterwards, puts K back in            *)
(* RemoteStore, and in LocalCache if its entry is eligible.                *)
(***************************************************************************)
C19_Outcome ==
  \A j \in BagToSet(queue) :
    j.kind = "backfill" =>
      LET d == DelRun(store, cache, <<j.e.Key>>, NoFault)
          r == JobRun(d.store, d.cache, j, NoFault)
      IN  /\ d.err = "nil" /\ ~Has(d.store, j.e.Key) /\ ~Has(d.cache, j.e.Key)
          /\ r.err = "nil" /\ Has(r.store, j.e.Key)
          /\ Has(r.cache, j.e.Key) <=> EnableLocalCache(j.e)

\* A step that changes the dispatcher's jobs is not a Del.
C19_Step ==
  queue' # queue => \A keys \in DelInputs : \A f \in DelFaults(keys) : ~Del(keys, f)

C19_DelKeepsBackfill == []C19_Outcome /\ [][C19_Step]_vars

\* A Get missed on K, then K was written to both tiers while the job is
\* still pending: a Del(K) now empties both tiers and the job refills them.
C19_Witness ==
  \E e \in ReadEntries :
    /\ EnableLocalCache(e)
    /\ BagIn(BackfillJob(e), queue)
    /\ Has(store, e.Key) /\ Has(cache, e.Key)
    /\ LET d == DelRun(store, cache, <<e.Key>>, NoFault)
       IN  JobRun(d.store, d.cache, BackfillJob(e), NoFault).cache[e.Key].data = Data(e)

(***************************************************************************)
(* C20. Get and MGet never write LocalCache, a remote hit included. A key  *)
(* enters LocalCache only by a Set, an MSet or a backfill job, and leaves  *)
(* it only by a Del, an eviction job or its expiry.                        *)
(***************************************************************************)
C20_RemoteHit ==
  \A e \in ReadEntries, sf \in BOOLEAN :
    GetRun(store, cache, e, sf).cache = cache

\* A step that changes LocalCache is neither a Get nor an MGet.
C20_Reads ==
  cache' # cache =>
    /\ \A e \in ReadEntries, sf \in BOOLEAN : ~Get(e, sf)
    /\ \A es \in MGetInputs : \A f \in MGetFaults(es) : ~MGet(es, f)

C20_InOut ==
  \A k \in Keys :
    /\ (~Has(cache, k) /\ Has(cache', k)) => WritesKey(k)
    /\ (Has(cache, k) /\ ~Has(cache', k)) => RemovesKey(k)

C20_ReadsLeaveLocalCache == []C20_RemoteHit /\ [][C20_Reads /\ C20_InOut]_vars

\* An eligible entry is in RemoteStore only, and a Get of it is a remote hit.
C20_Witness ==
  \E e \in ReadEntries :
    /\ EnableLocalCache(e)
    /\ Has(store, e.Key) /\ ~Has(cache, e.Key)
    /\ GetRun(store, cache, e, FALSE).err = "nil"
    /\ GetRun(store, cache, e, FALSE).calls = 1

====
